---- MODULE Spec2Model ----
(***************************************************************************)
(* A model of `ostree fsck` (src/src/ostree/ot-builtin-fsck.c): one run of *)
(* ostree_builtin_fsck over a small content-addressed repository.          *)
(*                                                                         *)
(* The repository holds two commits and the objects they reference:        *)
(*     cA -> tA, mS      tA -> f1                                           *)
(*     cB -> tB, mS      tB -> f1, f2                                       *)
(* Every object is named by the checksum of its content.  Init draws the   *)
(* command line, the defects of the store and the commits' parent and      *)
(* replication state; the environment (remote servers, the disk, the       *)
(* cancellable) is drawn step by step.                                     *)
(***************************************************************************)
EXTENDS Naturals, Sequences, FiniteSets, TLC

VARIABLES
  opt_delete,          \* --delete                              (line 34)
  opt_add_tombstones,  \* --add-tombstones                      (line 35)
  opt_repair_remotes,  \* --repair-from-remote, in order        (line 36)
  cancellable,         \* "null" | "live" | "cancelled"         (line 410)
  store,               \* the object store: object -> entry
  store0,              \* the store as it was when the run began
  commit_parent,       \* commit -> parent checksum or NoParent
  commit_partial,      \* commit -> OSTREE_REPO_COMMIT_STATE_PARTIAL
  tombstone_commits,   \* the store's core.tombstone-commits setting
  markers,             \* commits that have a tombstone object
  pc,                  \* position in ostree_builtin_fsck
  repair_remotes,      \* line 422
  objects,             \* line 419: the listing still to be classified
  commits,             \* line 420: the root set
  n_partial,           \* line 418
  tombstones,          \* line 421: staged tombstone requests
  roots_todo,          \* members of commits not yet expanded (lines 320-334)
  reachable_objects,   \* line 313
  todo,                \* members of reachable_objects not yet iterated, in order
  found_corruption,    \* line 417
  ret,                 \* line 412, once pc = "done"
  error,               \* the GError handed back: NoError or a record
  aborted,             \* the run left through a fatal error (not lines 523-530)
  loaded,              \* objects the run asked the store to load
  verified,            \* objects load_and_fsck_one_object was called on
  calls,               \* how many times load_and_fsck_one_object was called
  cur,                 \* the object of the latest load_and_fsck_one_object
  ops,                 \* what that call did to the store, in order
  ri,                  \* passes of repair_object's loop made for cur
  att,                 \* what the latest pass did, in order
  served,              \* << payload >> once the latest pass reached line 138
  repaired,            \* "yes" | "no": what repair_object returned for cur;
                       \* "n/a" while it has not been called or has not returned
  n_enable,            \* calls of ot_enable_tombstone_commits
  applied,             \* tombstone deletions issued by the apply phase
  printed_partial      \* << n >> once line 520 has printed n, else << >>

vars == << opt_delete, opt_add_tombstones, opt_repair_remotes,
           cancellable, store, store0, commit_parent,
           commit_partial, tombstone_commits, markers, pc,
           repair_remotes, objects, commits, n_partial,
           tombstones, roots_todo, reachable_objects, todo,
           found_corruption, ret, error, aborted, loaded,
           verified, calls, cur, ops, ri, att, served, repaired,
           n_enable, applied, printed_partial >>

(***************************************************************************)
(* Bounds of the model.                                                    *)
(***************************************************************************)
\* How many objects of the store are defective when the run begins.
MaxBad == 1

(***************************************************************************)
(* The repository.                                                         *)
(***************************************************************************)
CommitObjs == {"cA", "cB"}
DirTreeObjs == {"tA", "tB"}
DirMetaObjs == {"mS"}
FileObjs == {"f1", "f2"}
Objects == CommitObjs \cup DirTreeObjs \cup DirMetaObjs \cup FileObjs

\* A parent checksum that names no object of the store.
AbsentParent == "p0"
\* ostree_commit_get_parent returning NULL.
NoParent == "none"

ObjType(o) ==
  IF o \in CommitObjs THEN "commit"
  ELSE IF o \in DirTreeObjs THEN "dirtree"
  ELSE IF o \in DirMetaObjs THEN "dirmeta"
  ELSE "file"

\* OSTREE_OBJECT_TYPE_IS_META
IsMeta(t) == t \in {"commit", "dirtree", "dirmeta"}

\* The objects an object names.
Refs(o) ==
  CASE o = "cA" -> {"tA", "mS"}
    [] o = "tA" -> {"f1"}
    [] o = "cB" -> {"tB", "mS"}
    [] o = "tB" -> {"f1", "f2"}
    [] OTHER -> {}

(***************************************************************************)
(* Store entries.  st is "here", "absent" or "eio" (the object is there    *)
(* but reading it fails with an error other than not-found); flip says     *)
(* that the stored bytes differ from the bytes the name is the checksum    *)
(* of; wf says that the content passes its structural validator; from is   *)
(* the remote the content was fetched from by this run, "" for content the *)
(* store already had.                                                      *)
(***************************************************************************)
Good(o) == [st |-> "here", id |-> o, flip |-> FALSE, wf |-> TRUE, from |-> ""]
Gone(o) == [st |-> "absent", id |-> o, flip |-> FALSE, wf |-> TRUE, from |-> ""]

Defect(o, d) ==
  CASE d = "missing" -> Gone(o)
    [] d = "corrupt" -> [Good(o) EXCEPT !.flip = TRUE]
    [] d = "invalid" -> [Good(o) EXCEPT !.wf = FALSE]
    [] d = "eio"     -> [Good(o) EXCEPT !.st = "eio"]

\* The checksum of a content: the digest its name is, or another digest.
Digest(o) == [id |-> o, alt |-> FALSE]
ChecksumOf(e) == [id |-> e.id, alt |-> e.flip]

NoError == [set |-> FALSE, msg |-> "", csum |-> ""]
Err(m, c) == [set |-> TRUE, msg |-> m, csum |-> c]

NULL == << >>

(***************************************************************************)
(* The remotes the store is configured with, in the order                  *)
(* ostree_repo_remote_list gives them.  "rn" is configured without a url;  *)
(* "rx" is not configured at all.                                          *)
(***************************************************************************)
StoreRemotes == << "rn", "r1", "r2" >>
HasUrl(r) == r \in {"r1", "r2"}
Dash == "-"

\* The --repair-from-remote lists a run is started with.
ArgLists ==
  { << >>, << "r1" >>, << "r1", "r2" >>, << Dash >>, << Dash, "r1" >>,
    << "rx" >>, << "r1", "rn" >> }

SeqToSet(s) == { s[i] : i \in 1..Len(s) }

(***************************************************************************)
(* Operations of the store.  R is [store, markers, tc]: the objects, the   *)
(* tombstone objects and the core.tombstone-commits setting.               *)
(***************************************************************************)
\* ostree_repo_delete_object: removing an object that is not there fails, and
\* so does a disk that refuses (disk_ok is FALSE); a commit removed while the
\* tombstone feature is on leaves a tombstone.
DeleteObject(R, o, disk_ok) ==
  IF R.store[o].st = "absent" \/ ~disk_ok
  THEN [ok |-> FALSE, R |-> R]
  ELSE [ok |-> TRUE,
        R |-> [R EXCEPT !.store[o] = Gone(o),
                        !.markers = IF o \in CommitObjs /\ R.tc
                                    THEN R.markers \cup {o} ELSE R.markers]]

\* ostree_repo_write_content with an expected checksum: the content is
\* installed under the checksum only when it hashes to it.
WriteContent(R, o, payload, io_ok) ==
  IF ~io_ok \/ ChecksumOf(payload) # Digest(o)
  THEN [ok |-> FALSE, R |-> R]
  ELSE [ok |-> TRUE, R |-> [R EXCEPT !.store[o] = payload]]

\* ostree_repo_list_objects (OSTREE_REPO_LIST_OBJECTS_ALL)
ListObjects(st) == { o \in Objects : st[o].st # "absent" }

\* Everything a commit reaches: the commit, its root dirtree and dirmeta,
\* and what the dirtrees name.
RECURSIVE Reach(_)
Reach(o) == {o} \cup UNION { Reach(x) : x \in Refs(o) }

\* ostree_repo_traverse_commit_union: the union of acc and what c reaches.
\* Expanding needs the commit and every dirtree below it to be readable.
TraverseCommitUnion(st, c, acc, cancelled) ==
  LET expand == { x \in Reach(c) : ObjType(x) \in {"commit", "dirtree"} }
  IN IF cancelled \/ \E x \in expand : st[x].st # "here"
     THEN [ok |-> FALSE, set |-> acc]
     ELSE [ok |-> TRUE, set |-> acc \cup Reach(c)]

(***************************************************************************)
(* prepare_repair_remotes (lines 375-407).                                 *)
(***************************************************************************)
\* PrepareRepairRemotes without the test of line 390 and with the urls of
\* the named remotes left unchecked.
PrepareRepairRemotes_Unchecked(opt) ==
  IF opt = << >>
  THEN [ok |-> TRUE, remotes |-> NULL]
  ELSE IF Dash \in SeqToSet(opt)
  THEN [ok |-> TRUE, remotes |-> StoreRemotes]
  ELSE [ok |-> TRUE, remotes |-> opt]

PrepareRepairRemotes(opt) ==
  IF opt = << >>
  THEN [ok |-> TRUE, remotes |-> NULL]
  ELSE IF Dash \in SeqToSet(opt)
  THEN IF Len(opt) > 1
       THEN [ok |-> FALSE, remotes |-> NULL]
       ELSE [ok |-> TRUE, remotes |-> StoreRemotes]
  ELSE IF \E i \in 1..Len(opt) : ~HasUrl(opt[i])
  THEN [ok |-> FALSE, remotes |-> NULL]
  ELSE [ok |-> TRUE, remotes |-> opt]

(***************************************************************************)
(* Init: the state when ostree_builtin_fsck is entered.                    *)
(***************************************************************************)
BadSets == { B \in SUBSET Objects : Cardinality(B) <= MaxBad }

Stores ==
  UNION { { [o \in Objects |-> IF o \in B THEN Defect(o, d[o]) ELSE Good(o)] :
              d \in [B -> {"missing", "corrupt", "invalid", "eio"}] } :
          B \in BadSets }

\* The commits' parents: cA has none or one that is not in the store, cB has
\* cA or one that is not in the store.  The parent is read only under
\* --add-tombstones (line 461), so other runs are drawn with one choice of it.
Parents(add_tombstones) ==
  IF add_tombstones
  THEN { f \in [CommitObjs -> {NoParent, AbsentParent, "cA"}] :
           /\ f["cA"] # "cA"
           /\ f["cB"] # NoParent }
  ELSE { [c \in CommitObjs |-> IF c = "cA" THEN NoParent ELSE "cA"] }

InitRun ==
  /\ store0 = store
  /\ tombstone_commits = FALSE
  /\ markers = {}
  /\ pc = "prepare"
  /\ repair_remotes = NULL
  /\ objects = {}
  /\ commits = {}
  /\ n_partial = 0
  /\ tombstones = << >>
  /\ roots_todo = {}
  /\ reachable_objects = {}
  /\ todo = << >>
  /\ found_corruption = FALSE
  /\ ret = FALSE
  /\ error = NoError
  /\ aborted = FALSE
  /\ loaded = {}
  /\ verified = {}
  /\ calls = 0
  /\ cur = ""
  /\ ops = << >>
  /\ ri = 0
  /\ att = << >>
  /\ served = << >>
  /\ repaired = "n/a"
  /\ n_enable = 0
  /\ applied = << >>
  /\ printed_partial = << >>

Init ==
  /\ opt_delete \in BOOLEAN
  /\ opt_add_tombstones \in BOOLEAN
  /\ opt_repair_remotes \in ArgLists
  /\ store \in { s \in Stores : \A c \in CommitObjs : s[c].st # "absent" }
  /\ commit_parent \in Parents(opt_add_tombstones)
  /\ commit_partial \in { f \in [CommitObjs -> BOOLEAN] : ~f["cA"] }
  /\ cancellable = "null"
  /\ InitRun


\* Leaving ostree_builtin_fsck through `out` (or line 429) on a fatal error.
Abort(e) ==
  /\ pc' = "done"
  /\ ret' = FALSE
  /\ error' = e
  /\ aborted' = TRUE

(***************************************************************************)
(* Lines 428-436: the repair sources, then the listing.                    *)
(***************************************************************************)
Prepare ==
  /\ pc = "prepare"
  /\ LET p == PrepareRepairRemotes(opt_repair_remotes)
     IN IF ~p.ok
        THEN /\ Abort(Err("repair remotes", ""))
             /\ UNCHANGED << repair_remotes, objects >>
        ELSE IF cancellable = "cancelled"
        THEN /\ Abort(Err("cancelled", ""))
             /\ repair_remotes' = p.remotes
             /\ UNCHANGED objects
        ELSE /\ pc' = "census"
             /\ repair_remotes' = p.remotes
             /\ objects' = ListObjects(store)
             /\ UNCHANGED << ret, error, aborted >>
  /\ UNCHANGED << opt_delete, opt_add_tombstones,
                  opt_repair_remotes, cancellable, store,
                  store0, commit_parent, commit_partial,
                  tombstone_commits, markers, commits,
                  n_partial, tombstones, roots_todo,
                  reachable_objects, todo, found_corruption,
                  loaded, verified, calls, cur, ops, ri,
                  att, served, repaired, n_enable, applied,
                  printed_partial >>

(***************************************************************************)
(* Lines 446-490: the census, one listed commit at a time (the listing's   *)
(* other objects are skipped at line 456).                                 *)
(***************************************************************************)
\* ParentNotFound without the not-found test of line 468.
ParentNotFound_AnyParent(st, parent) == parent # NoParent

\* Lines 465-475: the parent is named and loading it says not-found.
ParentNotFound(st, parent) ==
  /\ parent # NoParent
  /\ (parent \notin Objects \/ st[parent].st = "absent")

\* Lines 476-480: loading the parent fails in another way.
ParentLoadFails(st, parent) ==
  /\ parent # NoParent
  /\ parent \in Objects
  /\ st[parent].st = "eio"

\* IsRoot without the test of line 485.
IsRoot_Always(partial) == TRUE

\* Lines 485-488: which commits become roots.
IsRoot(partial) == ~partial

CensusCommit ==
  /\ pc = "census"
  /\ \E c \in objects \cap CommitObjs :
       /\ objects' = objects \ {c}
       /\ loaded' = loaded \cup {c} \cup
                       (IF /\ store[c].st = "here"
                           /\ opt_add_tombstones
                           /\ commit_parent[c] \in Objects
                        THEN {commit_parent[c]} ELSE {})
       /\ IF store[c].st # "here"
          THEN \* line 459
               /\ Abort(Err("load commit", c))
               /\ UNCHANGED << tombstones, n_partial, commits >>
          ELSE IF opt_add_tombstones /\ ParentLoadFails(store, commit_parent[c])
          THEN \* line 478
               /\ Abort(Err("load parent", commit_parent[c]))
               /\ UNCHANGED << tombstones, n_partial, commits >>
          ELSE /\ tombstones' =
                    IF opt_add_tombstones /\ ParentNotFound(store, commit_parent[c])
                    THEN Append(tombstones, c) ELSE tombstones
               /\ IF IsRoot(commit_partial[c])
                  THEN commits' = commits \cup {c} /\ UNCHANGED n_partial
                  ELSE n_partial' = n_partial + 1 /\ UNCHANGED commits
               /\ UNCHANGED << pc, ret, error, aborted >>
  /\ UNCHANGED << opt_delete, opt_add_tombstones,
                  opt_repair_remotes, cancellable, store,
                  store0, commit_parent, commit_partial,
                  tombstone_commits, markers,
                  repair_remotes, roots_todo,
                  reachable_objects, todo, found_corruption,
                  verified, calls, cur, ops, ri, att,
                  served, repaired, n_enable, applied,
                  printed_partial >>

\* Lines 490-498: the listing is dropped and the walk over the roots begins.
CensusDone ==
  /\ pc = "census"
  /\ objects \cap CommitObjs = {}
  /\ objects' = {}
  /\ roots_todo' = commits
  /\ pc' = "traverse"
  /\ UNCHANGED << opt_delete, opt_add_tombstones,
                  opt_repair_remotes, cancellable, store,
                  store0, commit_parent, commit_partial,
                  tombstone_commits, markers,
                  repair_remotes, commits, n_partial,
                  tombstones, reachable_objects, todo,
                  found_corruption, ret, error, aborted,
                  loaded, verified, calls, cur, ops, ri,
                  att, served, repaired, n_enable, applied,
                  printed_partial >>

(***************************************************************************)
(* Lines 318-334: the reachable set, one root at a time.                   *)
(***************************************************************************)
\* TraverseInto with a new table for every root.
TraverseInto_Fresh(acc) == {}

\* Lines 318 and 331: the table a root is expanded into is the one made
\* before the loop, holding what the earlier roots reached.
TraverseInto(acc) == acc

\* TraverseFailed with the result of line 331 ignored.
TraverseFailed_Never(ok) == FALSE

\* Lines 331-333: whether the expansion of a root ends the pass.
TraverseFailed(ok) == ~ok

TraverseCommit ==
  /\ pc = "traverse"
  /\ \E c \in roots_todo :
       LET t == TraverseCommitUnion(store, c, TraverseInto(reachable_objects),
                                    cancellable = "cancelled")
       IN /\ roots_todo' = roots_todo \ {c}
          /\ reachable_objects' = t.set
          /\ IF TraverseFailed(t.ok)
             THEN Abort(Err("traverse", c))
             ELSE UNCHANGED << pc, ret, error, aborted >>
  /\ UNCHANGED << opt_delete, opt_add_tombstones,
                  opt_repair_remotes, cancellable, store,
                  store0, commit_parent, commit_partial,
                  tombstone_commits, markers,
                  repair_remotes, objects, commits,
                  n_partial, tombstones, todo,
                  found_corruption, loaded, verified, calls,
                  cur, ops, ri, att, served, repaired,
                  n_enable, applied, printed_partial >>

\* A GHashTable iterates in an order the program does not choose.  The model
\* draws it from two: one order of the keys and its reverse, so that every
\* two objects are met in both orders.
HashOrder == << "f1", "cA", "mS", "tB", "cB", "tA", "f2" >>
Reverse(s) == [i \in 1..Len(s) |-> s[Len(s) + 1 - i]]
\* IterOrders over a list that keeps every mention of an object: what two
\* roots both reach comes twice.
IterOrders_Repeating(S) ==
  LET inS(x) == x \in S
      fwd == SelectSeq(HashOrder, inS)
      both(x) == x \in S \cap Reach("cA") \cap Reach("cB")
  IN {fwd \o SelectSeq(HashOrder, both)}

IterOrders(S) ==
  LET inS(x) == x \in S
      fwd == SelectSeq(HashOrder, inS)
  IN {fwd, Reverse(fwd)}

\* Lines 336-339: the iteration over the reachable set begins.
TraverseDone ==
  /\ pc = "traverse"
  /\ roots_todo = {}
  /\ todo' \in IterOrders(reachable_objects)
  /\ pc' = "verify"
  /\ UNCHANGED << opt_delete, opt_add_tombstones,
                  opt_repair_remotes, cancellable, store,
                  store0, commit_parent, commit_partial,
                  tombstone_commits, markers,
                  repair_remotes, objects, commits,
                  n_partial, tombstones, roots_todo,
                  reachable_objects, found_corruption, ret,
                  error, aborted, loaded, verified, calls,
                  cur, ops, ri, att, served, repaired,
                  n_enable, applied, printed_partial >>

(***************************************************************************)
(* repair_object (lines 47-157).  What a call does is logged as a sequence *)
(* of operations; the environment's part in each attempt is an outcome:    *)
(*   "no_url"   the remote has no url                       (line 82)      *)
(*   "request"  soup_session_request fails                  (line 91)      *)
(*   "send"     soup_request_send fails                     (line 101)     *)
(*   "parse"    ostree_content_stream_parse fails           (line 110)     *)
(*   "convert"  ostree_raw_file_to_content_stream fails     (line 125)     *)
(*   "write_io" ostree_repo_write_content fails on the disk (line 138)     *)
(*   "bad"      the remote serves bytes of another checksum                *)
(*   "good"     the remote serves the bytes the checksum names             *)
(*   "cancel_X" the run is cancelled while step X is under way             *)
(***************************************************************************)
Op(name, src, ok) == [op |-> name, src |-> src, ok |-> ok]

PlainOutcomes == {"request", "send", "parse", "convert", "write_io", "bad", "good"}
CancelOutcomes == {"cancel_send", "cancel_parse", "cancel_convert", "cancel_write"}

\* What remote r serves for o.
Payload(o, r, out) == [Good(o) EXCEPT !.flip = (out = "bad"), !.from = r]

\* Repairable without the test of line 58.
Repairable_Any(t) == TRUE

\* Line 58: the kinds repair_object handles.
Repairable(t) == t = "file"

\* AfterWrite with the result of ostree_repo_write_content ignored.
AfterWrite_Ignored(ok) == "true"

\* Lines 138-153: the pass's verdict once ostree_repo_write_content returned.
AfterWrite(ok) == IF ok THEN "true" ELSE "next"

\* Lines 69-153: one pass of the loop body, for remote r.  verdict is "next"
\* (continue), "true" (line 153) or "false" (line 104).
Attempt(R, r, o, del, out, disk_ok, canc) ==
  LET url  == << Op("url", r, HasUrl(r)) >>
      req  == url \o << Op("request", r, out # "request") >>
      snd  == req \o << Op("send", r, ~(canc \/ out \in {"send", "cancel_send"})) >>
      prs  == snd \o << Op("parse", r, out \notin {"parse", "cancel_parse"}) >>
      cnv  == prs \o << Op("convert", r, out \notin {"convert", "cancel_convert"}) >>
      w    == WriteContent(R, o, Payload(o, r, out),
                           out \notin {"write_io", "cancel_write"})
      wr   == cnv \o << Op("write", r, w.ok) >>
      d    == DeleteObject(w.R, o, disk_ok)
      now  == canc \/ out \in CancelOutcomes
  IN IF ~HasUrl(r)
     THEN [verdict |-> "next", R |-> R, ops |-> url, canc |-> canc]
     ELSE IF out = "request"
     THEN [verdict |-> "next", R |-> R, ops |-> req, canc |-> canc]
     ELSE IF canc \/ out = "cancel_send"
     THEN [verdict |-> "false", R |-> R, ops |-> snd, canc |-> TRUE]
     ELSE IF out = "send"
     THEN [verdict |-> "next", R |-> R, ops |-> snd, canc |-> canc]
     ELSE IF out \in {"parse", "cancel_parse"}
     THEN [verdict |-> "next", R |-> R, ops |-> prs, canc |-> now]
     ELSE IF out \in {"convert", "cancel_convert"}
     THEN [verdict |-> "next", R |-> R, ops |-> cnv, canc |-> now]
     ELSE IF ~w.ok
     THEN IF del
          THEN [verdict |-> AfterWrite(w.ok), R |-> d.R,
                ops |-> wr \o << Op("delete", r, d.ok) >>, canc |-> now]
          ELSE [verdict |-> AfterWrite(w.ok), R |-> w.R, ops |-> wr, canc |-> now]
     ELSE [verdict |-> AfterWrite(w.ok), R |-> w.R, ops |-> wr, canc |-> canc]

(***************************************************************************)
(* load_and_fsck_one_object (lines 159-300), up to its call of             *)
(* repair_object.                                                          *)
(***************************************************************************)
\* ostree_repo_load_variant / ostree_repo_load_file: only load_file takes the
\* cancellable.
LoadState(e, t, canc) ==
  IF ~IsMeta(t) /\ canc THEN "fail"
  ELSE IF e.st = "absent" THEN "missing"
  ELSE IF e.st = "eio" THEN "fail"
  ELSE "loaded"

\* Lines 188-192 and 241-246: the error a failed load leaves.  For a metadata
\* object the load's error stays in temp_error and g_prefix_error finds
\* *error unset; for a file it is moved into *error first.
LoadError(t, o) ==
  IF IsMeta(t) THEN NoError ELSE Err("Loading file object", o)

\* Validated without the file-mode check of lines 250-255.
Validated_MetaOnly(t) == t \in {"commit", "dirtree", "dirmeta"}

\* Lines 196-219 and 250-255: the kinds whose structure is validated.
Validated(t) == t \in {"commit", "dirtree", "dirmeta", "file"}

\* Remediate with the test of line 281 always taken.
Remediate_Always(del, rr) == TRUE

\* Remediate with the test of line 281 inverted.
Remediate_Inverted(del, rr) == ~(del \/ rr # NULL)

\* Remediate with the repair sources left out of the test of line 281.
Remediate_DeleteOnly(del, rr) == del

\* Line 281: whether a checksum mismatch is remediated rather than fatal.
Remediate(del, rr) == del \/ rr # NULL

\* Unrepaired with the flag never raised.
Unrepaired_Never(rr, fixed) == FALSE

\* Unrepaired with repair_object's result taken the wrong way round.
Unrepaired_Inverted(rr, fixed) == rr = NULL \/ fixed

\* Lines 261-263 and 285-287: whether the object counts as corruption.
Unrepaired(rr, fixed) == rr = NULL \/ ~fixed

\* SameChecksum with the comparison of line 276 inverted.
SameChecksum_Inverted(name, computed) == name # computed

\* Line 276: the computed checksum against the object's name.
SameChecksum(name, computed) == name = computed

\* The call up to the point where repair_object's loop would begin.  next is
\* "out" (the call returns: ret, err and corrupt are its result) or "loop"
\* (repair_object has reached line 67).
LoadAndFsckOneObject(R, o, rr, del, canc, disk_ok) ==
  LET t   == ObjType(o)
      e   == R.store[o]
      ls  == LoadState(e, t, canc)
      ld  == << Op("load", "", ls = "loaded") >>
      val == ld \o << Op("validate", "", e.wf) >>
      sum == val \o << Op("checksum", "", ~canc) >>
      d   == DeleteObject(R, o, disk_ok)
      dl  == sum \o << Op("delete", "", d.ok) >>
      out(r, er, RR, c, lg) ==
        [next |-> "out", ret |-> r, err |-> er, R |-> RR, corrupt |-> c, ops |-> lg]
      loop(RR, lg) ==
        [next |-> "loop", ret |-> TRUE, err |-> NoError, R |-> RR,
         corrupt |-> FALSE, ops |-> lg]
  IN IF ls = "fail"
     THEN out(FALSE, LoadError(t, o), R, FALSE, ld)
     ELSE IF ls = "missing"
     THEN IF rr # NULL /\ Repairable(t)
          THEN loop(R, ld)
          ELSE out(TRUE, NoError, R, Unrepaired(rr, FALSE), ld)
     ELSE IF Validated(t) /\ ~e.wf
     THEN out(FALSE, Err("While validating", o), R, FALSE, val)
     ELSE IF canc
     THEN out(FALSE, Err("cancelled", ""), R, FALSE, sum)
     ELSE IF SameChecksum(Digest(o), ChecksumOf(e))
     THEN out(TRUE, NoError, R, FALSE, sum)
     ELSE IF ~Remediate(del, rr)
     THEN out(FALSE, Err("corrupted object", o), R, FALSE, sum)
     ELSE IF rr # NULL /\ Repairable(t)
     THEN loop(d.R, dl)
     ELSE out(TRUE, NoError, d.R, Unrepaired(rr, FALSE), dl)

(***************************************************************************)
(* Lines 340-355: the loop over the reachable set, in the order todo.      *)
(***************************************************************************)
Repo == [store |-> store, markers |-> markers, tc |-> tombstone_commits]

\* Whether the disk lets the store unlink o; asked only where the answer
\* can matter.
DiskAnswers(o) ==
  IF store[o].st = "here" THEN BOOLEAN ELSE {TRUE}

VerifyObject ==
  /\ pc = "verify"
  /\ todo # << >>
  /\ \E o \in {Head(todo)} :
     \E disk_ok \in (IF store[o].wf /\ store[o].flip
                     THEN DiskAnswers(o) ELSE {TRUE}) :
       LET r == LoadAndFsckOneObject(Repo, o, repair_remotes, opt_delete,
                                     cancellable = "cancelled", disk_ok)
       IN /\ todo' = Tail(todo)
          /\ verified' = verified \cup {o}
          /\ calls' = calls + 1
          /\ loaded' = loaded \cup {o}
          /\ cur' = o
          /\ ops' = r.ops
          /\ ri' = 0
          /\ att' = << >>
          /\ served' = << >>
          /\ repaired' = IF r.next = "out" /\ r.corrupt /\ repair_remotes # NULL
                         THEN "no" ELSE "n/a"
          /\ store' = r.R.store
          /\ markers' = r.R.markers
          /\ found_corruption' = (found_corruption \/ r.corrupt)
          /\ IF r.next = "loop"
             THEN pc' = "repair" /\ UNCHANGED << ret, error, aborted >>
             ELSE IF r.ret
             THEN UNCHANGED << pc, ret, error, aborted >>
             ELSE Abort(r.err)
  /\ UNCHANGED << opt_delete, opt_add_tombstones,
                  opt_repair_remotes, cancellable, store0,
                  commit_parent, commit_partial,
                  tombstone_commits, repair_remotes,
                  objects, commits, n_partial, tombstones,
                  roots_todo, reachable_objects, n_enable,
                  applied, printed_partial >>

(***************************************************************************)
(* Lines 67-156: repair_object's loop, one remote at a time, and the use   *)
(* load_and_fsck_one_object makes of its result (lines 261-263, 285-287).  *)
(* ri counts the passes of the loop body that have been made for cur.      *)
(***************************************************************************)
\* LoopOver without the return of line 153.
LoopOver_PastSuccess(verdict, i, n) == verdict = "false" \/ i = n

\* Lines 67, 104 and 153: whether the loop is left after pass i of n.
LoopOver(verdict, i, n) == verdict # "next" \/ i = n

OutcomesOf(r) ==
  IF ~HasUrl(r) THEN {"no_url"}
  ELSE PlainOutcomes \cup (IF cancellable = "live" THEN CancelOutcomes ELSE {})

RepairAttempt ==
  /\ pc = "repair"
  /\ ri < Len(repair_remotes)
  /\ \E out \in OutcomesOf(repair_remotes[ri + 1]) :
     \E disk_ok \in (IF opt_delete THEN DiskAnswers(cur) ELSE {TRUE}) :
       LET a == Attempt(Repo, repair_remotes[ri + 1], cur, opt_delete, out,
                        disk_ok, cancellable = "cancelled")
           over == LoopOver(a.verdict, ri + 1, Len(repair_remotes))
       IN /\ ri' = ri + 1
          /\ att' = a.ops
          /\ served' = IF a.ops[Len(a.ops)].op \in {"write", "delete"}
                        THEN << Payload(cur, repair_remotes[ri + 1], out) >>
                        ELSE << >>
          /\ store' = a.R.store
          /\ markers' = a.R.markers
          /\ cancellable' = IF a.canc THEN "cancelled" ELSE cancellable
          /\ repaired' = IF ~over THEN repaired
                         ELSE IF a.verdict = "true" THEN "yes" ELSE "no"
          /\ found_corruption' =
               IF over
               THEN found_corruption \/ Unrepaired(repair_remotes, a.verdict = "true")
               ELSE found_corruption
          /\ pc' = IF over THEN "verify" ELSE pc
  /\ UNCHANGED << opt_delete, opt_add_tombstones,
                  opt_repair_remotes, store0, commit_parent,
                  commit_partial, tombstone_commits,
                  repair_remotes, objects, commits,
                  n_partial, tombstones, roots_todo,
                  reachable_objects, todo, ret, error,
                  aborted, loaded, verified, calls, cur,
                  ops, n_enable, applied, printed_partial >>

\* Lines 357 and 498-500: the loop is over and the pass returned TRUE.
VerifyDone ==
  /\ pc = "verify"
  /\ todo = << >>
  /\ pc' = "post"
  /\ UNCHANGED << opt_delete, opt_add_tombstones,
                  opt_repair_remotes, cancellable, store,
                  store0, commit_parent, commit_partial,
                  tombstone_commits, markers,
                  repair_remotes, objects, commits,
                  n_partial, tombstones, roots_todo,
                  reachable_objects, todo, found_corruption,
                  ret, error, aborted, loaded, verified,
                  calls, cur, ops, ri, att, served,
                  repaired, n_enable, applied,
                  printed_partial >>

(***************************************************************************)
(* Lines 502-521: the tombstones, or else the partial commits' report.     *)
(***************************************************************************)
\* Lines 502 and 518: whether line 520 prints the partial count.
PrintsPartial(add_tombstones, n) == ~add_tombstones /\ n > 0

\* EnablesTombstones without the test of line 505.
EnablesTombstones_Always(add_tombstones, n) == add_tombstones

\* Lines 502-505: whether ot_enable_tombstone_commits is called, for n staged
\* requests.
EnablesTombstones(add_tombstones, n) == add_tombstones /\ n > 0

\* AppliesTombstones with the test of line 523 made before the tombstones.
AppliesTombstones_UnlessCorrupt(add_tombstones, found) ==
  add_tombstones /\ ~found

\* Lines 502 and 523: whether the staged requests are applied; the corruption
\* flag is read only after them.
AppliesTombstones(add_tombstones, found) == add_tombstones

\* Lines 502-509 and 518-521.  ot_enable_tombstone_commits may fail.
PostVerify ==
  /\ pc = "post"
  /\ \E enable_ok \in (IF EnablesTombstones(opt_add_tombstones, Len(tombstones))
                       THEN BOOLEAN ELSE {TRUE}) :
       /\ n_enable' = IF EnablesTombstones(opt_add_tombstones, Len(tombstones))
                      THEN n_enable + 1 ELSE n_enable
       /\ tombstone_commits' =
            IF EnablesTombstones(opt_add_tombstones, Len(tombstones)) /\ enable_ok
            THEN TRUE ELSE tombstone_commits
       /\ printed_partial' = IF PrintsPartial(opt_add_tombstones, n_partial)
                             THEN << n_partial >> ELSE printed_partial
       /\ IF ~enable_ok
          THEN Abort(Err("enable tombstones", ""))
          ELSE /\ pc' = IF AppliesTombstones(opt_add_tombstones, found_corruption)
                        THEN "tombstone" ELSE "report"
               /\ UNCHANGED << ret, error, aborted >>
  /\ UNCHANGED << opt_delete, opt_add_tombstones,
                  opt_repair_remotes, cancellable, store,
                  store0, commit_parent, commit_partial,
                  markers, repair_remotes, objects, commits,
                  n_partial, tombstones, roots_todo,
                  reachable_objects, todo, found_corruption,
                  loaded, verified, calls, cur, ops, ri,
                  att, served, repaired, applied >>

\* Lines 510-516: one staged request; applied logs the commit, whether it was
\* in the store when the deletion was issued, and whether the deletion worked.
ApplyTombstone ==
  /\ pc = "tombstone"
  /\ Len(applied) < Len(tombstones)
  /\ \E disk_ok \in BOOLEAN :
       LET c == tombstones[Len(applied) + 1]
           d == DeleteObject(Repo, c, disk_ok)
       IN /\ applied' = Append(applied,
                               [c |-> c, present |-> store[c].st # "absent",
                                ok |-> d.ok])
          /\ store' = d.R.store
          /\ markers' = d.R.markers
          /\ IF d.ok
             THEN UNCHANGED << pc, ret, error, aborted >>
             ELSE Abort(Err("Deleting object", c))
  /\ UNCHANGED << opt_delete, opt_add_tombstones,
                  opt_repair_remotes, cancellable, store0,
                  commit_parent, commit_partial,
                  tombstone_commits, repair_remotes,
                  objects, commits, n_partial, tombstones,
                  roots_todo, reachable_objects, todo,
                  found_corruption, loaded, verified, calls,
                  cur, ops, ri, att, served, repaired,
                  n_enable, printed_partial >>

ApplyDone ==
  /\ pc = "tombstone"
  /\ Len(applied) = Len(tombstones)
  /\ pc' = "report"
  /\ UNCHANGED << opt_delete, opt_add_tombstones,
                  opt_repair_remotes, cancellable, store,
                  store0, commit_parent, commit_partial,
                  tombstone_commits, markers,
                  repair_remotes, objects, commits,
                  n_partial, tombstones, roots_todo,
                  reachable_objects, todo, found_corruption,
                  ret, error, aborted, loaded, verified,
                  calls, cur, ops, ri, att, served,
                  repaired, n_enable, applied,
                  printed_partial >>

(***************************************************************************)
(* Lines 523-536: the result.                                              *)
(***************************************************************************)
\* FinalRet with lines 523-528 left out.
FinalRet_IgnoresFlag(found) == TRUE

\* Lines 523-530: ret, from the corruption flag.
FinalRet(found) == ~found

Report ==
  /\ pc = "report"
  /\ pc' = "done"
  /\ ret' = FinalRet(found_corruption)
  /\ error' = IF found_corruption
               THEN Err("Repository corruption encountered", "") ELSE NoError
  /\ UNCHANGED << opt_delete, opt_add_tombstones,
                  opt_repair_remotes, cancellable, store,
                  store0, commit_parent, commit_partial,
                  tombstone_commits, markers,
                  repair_remotes, objects, commits,
                  n_partial, tombstones, roots_todo,
                  reachable_objects, todo, found_corruption,
                  aborted, loaded, verified, calls, cur,
                  ops, ri, att, served, repaired, n_enable,
                  applied, printed_partial >>

\* The environment cancels the run's GCancellable.
Cancel ==
  /\ cancellable = "live"
  /\ pc # "done"
  /\ cancellable' = "cancelled"
  /\ UNCHANGED << opt_delete, opt_add_tombstones,
                  opt_repair_remotes, store, store0,
                  commit_parent, commit_partial,
                  tombstone_commits, markers, pc,
                  repair_remotes, objects, commits,
                  n_partial, tombstones, roots_todo,
                  reachable_objects, todo, found_corruption,
                  ret, error, aborted, loaded, verified,
                  calls, cur, ops, ri, att, served,
                  repaired, n_enable, applied,
                  printed_partial >>

Next ==
  \/ Prepare
  \/ CensusCommit
  \/ CensusDone
  \/ TraverseCommit
  \/ TraverseDone
  \/ VerifyObject
  \/ RepairAttempt
  \/ VerifyDone
  \/ PostVerify
  \/ ApplyTombstone
  \/ ApplyDone
  \/ Report

\* A run whose cancellable is never cancelled.
Spec == Init /\ [][Next]_vars

\* A run over complete commits that may be cancelled at any moment; under
\* --add-tombstones cB names a parent that is not in the store.
InitCancel ==
  /\ opt_delete \in BOOLEAN
  /\ opt_add_tombstones \in BOOLEAN
  /\ opt_repair_remotes \in ArgLists
  /\ store \in { s \in Stores : \A c \in CommitObjs : s[c].st # "absent" }
  /\ commit_parent \in { f \in Parents(opt_add_tombstones) :
                           f["cA"] = NoParent /\ f["cB"] \in {"cA", AbsentParent} }
  /\ commit_partial = [c \in CommitObjs |-> FALSE]
  /\ cancellable = "live"
  /\ InitRun
NextCancel == Next \/ Cancel
SpecCancel == InitCancel /\ [][NextCancel]_vars

(***************************************************************************)
(* What the claims speak of.                                               *)
(***************************************************************************)
\* The defect an object had when the run began.
Missing0(o) == store0[o].st = "absent"
Mismatch0(o) == store0[o].st = "here" /\ store0[o].wf /\ store0[o].flip
Invalid0(o) == store0[o].st = "here" /\ ~store0[o].wf
Intact0(o) == store0[o] = Good(o)

\* load_and_fsck_one_object has been called on o and has returned.
Settled(o) == o \in verified /\ ~(pc = "repair" /\ cur = o)

\* e is content that loads, passes its validator and hashes to its name.
Sound(e) == e.st = "here" /\ e.wf /\ ~e.flip

\* The store holds no content for o that hashes to o.
NotRepaired(o) == store[o].st = "absent" \/ store[o].flip

\* Some remediation is configured.
Remediation == opt_delete \/ repair_remotes # NULL

HasOp(log, name) == \E i \in 1..Len(log) : log[i].op = name
LastOp(log) == log[Len(log)]

(***************************************************************************)
(* C1: with neither --delete nor a repair source, an object whose          *)
(* recomputed checksum differs from its name aborts the run at once: it is *)
(* the last object verified, the error names its checksum, the object is   *)
(* left in the store as it was, and the result is failure.                 *)
(***************************************************************************)
C1_MismatchAborts ==
  \A o \in verified :
    (Mismatch0(o) /\ ~opt_delete /\ repair_remotes = NULL) =>
      /\ pc = "done"
      /\ cur = o
      /\ aborted
      /\ ~ret
      /\ error = Err("corrupted object", o)
      /\ store[o] = store0[o]
      /\ ~HasOp(ops, "delete")
      /\ ri = 0

\* A mismatched object aborted the run while others were still to be verified.
C1_Witness ==
  /\ pc = "done"
  /\ ~opt_delete
  /\ repair_remotes = NULL
  /\ cur \in verified
  /\ Mismatch0(cur)
  /\ todo # << >>
  /\ verified # {cur}

(***************************************************************************)
(* C2: a missing object, or a mismatched one under --delete or repair      *)
(* sources, that no source repaired sets the corruption flag and does not  *)
(* abort the run: the loop goes on to the remaining objects, and a run     *)
(* that no fatal error ends has verified the whole reachable set and       *)
(* reports "Repository corruption encountered".                            *)
(***************************************************************************)
C2_SoftCorruptionAggregated ==
  \A o \in verified :
    ( /\ Settled(o)
      /\ Missing0(o) \/ (Mismatch0(o) /\ Remediation)
      /\ NotRepaired(o) ) =>
      /\ found_corruption
      /\ (cur = o /\ aborted) => todo = << >>
      /\ pc = "done" => ~ret
      /\ (pc = "done" /\ ~aborted) =>
           /\ verified = reachable_objects
           /\ error = Err("Repository corruption encountered", "")

\* --delete, no repair source, a missing object met before the last one: the
\* run went through the whole reachable set and then failed.
C2_Witness ==
  /\ pc = "done"
  /\ ~aborted
  /\ ~ret
  /\ opt_delete
  /\ repair_remotes = NULL
  /\ \E o \in verified : Missing0(o) /\ cur # o
  /\ verified = reachable_objects

C4_ResultIffCorruptionOrFatal ==
  pc = "done" => (~ret <=> (found_corruption \/ aborted))

\* The flag alone failed a run that no fatal error ended.
C4_Witness ==
  /\ pc = "done"
  /\ ~ret
  /\ found_corruption
  /\ ~aborted

(***************************************************************************)
(* C5 and C6 speak of the census.                                          *)
(***************************************************************************)
PartialCommits == { c \in CommitObjs : commit_partial[c] }

\* The objects that only Partial commits reach.
OnlyFromPartial ==
  UNION { Reach(c) : c \in PartialCommits } \
    UNION { Reach(c) : c \in CommitObjs \ PartialCommits }

\* The commits whose parent checksum is set and names nothing in the store.
Orphans == { c \in CommitObjs : commit_parent[c] = AbsentParent }

Staged == { tombstones[i] : i \in 1..Len(tombstones) }

CensusOver == pc \in {"traverse", "verify", "repair", "post", "tombstone", "report"}

(***************************************************************************)
(* C5, as amended: a Partial commit is never put in the root set; the      *)
(* census loads it and counts it, and under --add-tombstones stages it     *)
(* like any other commit whose parent is not found, so that the apply      *)
(* phase may delete it.  It is never verified or repaired, and the objects *)
(* other than commits that only Partial commits reach are never loaded,    *)
(* verified, deleted or repaired.                                          *)
(***************************************************************************)
C5_PartialNeverRoot ==
  /\ commits \cap PartialCommits = {}
  /\ roots_todo \cap PartialCommits = {}
  /\ CensusOver => /\ n_partial = Cardinality(PartialCommits)
                   /\ commits = CommitObjs \ PartialCommits
                   /\ PartialCommits \subseteq loaded
  /\ \A o \in OnlyFromPartial :
       /\ o \notin reachable_objects
       /\ o \notin verified
       /\ cur # o
  /\ \A o \in OnlyFromPartial \ CommitObjs :
       /\ o \notin loaded
       /\ store[o] = store0[o]
  /\ \A c \in PartialCommits :
       store[c] # store0[c] =>
         /\ opt_add_tombstones
         /\ c \in Orphans
         /\ \E i \in 1..Len(applied) : applied[i].c = c /\ applied[i].ok
         /\ store[c] = Gone(c)

\* cB is Partial and its parent is not in the store: the run verified what cA
\* reaches, counted cB, and replaced it by a tombstone.
C5_Witness ==
  /\ pc = "done"
  /\ ~aborted
  /\ opt_add_tombstones
  /\ commit_partial["cB"]
  /\ n_partial = 1
  /\ verified = Reach("cA")
  /\ store["cB"] = Gone("cB")
  /\ "cB" \in markers

\* C5 as it was claimed: a Partial commit only raises the count, and nothing
\* that only Partial commits reach (the commit itself included) is loaded,
\* verified, deleted or repaired.
C5_Original ==
  /\ commits \cap PartialCommits = {}
  /\ PartialCommits \cap Staged = {}
  /\ \A o \in OnlyFromPartial :
       /\ o \notin loaded
       /\ o \notin verified
       /\ store[o] = store0[o]

(***************************************************************************)
(* C6: under --add-tombstones the staged requests are exactly the listed   *)
(* commits whose parent is set and not found, each once; a run that no     *)
(* fatal error ends has issued one deletion for each, which removed the    *)
(* commit and left its tombstone; a commit whose parent is unset or in the *)
(* store is never staged; and a store with no defect gives a run that      *)
(* succeeds with the corruption flag unset.                                *)
(***************************************************************************)
C6_TombstonesStagedOnce ==
  /\ ~opt_add_tombstones =>
       tombstones = << >> /\ applied = << >> /\ n_enable = 0 /\ markers = {}
  /\ \A i, j \in 1..Len(tombstones) : tombstones[i] = tombstones[j] => i = j
  /\ Staged \subseteq Orphans
  /\ (opt_add_tombstones /\ CensusOver) => Staged = Orphans
  /\ Len(applied) <= Len(tombstones)
  /\ \A i \in 1..Len(applied) : applied[i].c = tombstones[i]
  /\ markers \subseteq Staged
  /\ (pc = "done" /\ ~aborted /\ opt_add_tombstones) =>
       /\ Staged = Orphans
       /\ Len(applied) = Len(tombstones)
       /\ n_enable = (IF Orphans = {} THEN 0 ELSE 1)
       /\ \A c \in Orphans :
            /\ Cardinality({ i \in 1..Len(applied) : applied[i].c = c }) = 1
            /\ \A i \in 1..Len(applied) : applied[i].ok
            /\ store[c] = Gone(c)
            /\ c \in markers
       /\ \A c \in CommitObjs \ Orphans : c \notin markers
  /\ (pc = "done" /\ ~aborted /\ \A o \in Objects : Intact0(o)) =>
       ~found_corruption /\ ret

\* Both commits name a parent that is not in the store: both were replaced by
\* a tombstone and the run succeeded.
C6_Witness ==
  /\ pc = "done"
  /\ ret
  /\ ~found_corruption
  /\ opt_add_tombstones
  /\ Orphans = {"cA", "cB"}
  /\ Len(applied) = 2
  /\ markers = {"cA", "cB"}
  /\ \A c \in Orphans : store[c] = Gone(c)

(***************************************************************************)
(* C7: repair_object on a commit, dirtree or dirmeta returns failure       *)
(* before its loop: no pass is made, no source is contacted and nothing is *)
(* written; so a missing metadata object met under repair sources leaves   *)
(* the store as it was, sets the corruption flag and fails the run.        *)
(***************************************************************************)
C7_MetadataRepairFails ==
  /\ pc = "repair" => cur \in FileObjs
  /\ cur \in Objects \ FileObjs =>
       /\ ri = 0
       /\ att = << >>
       /\ served = << >>
       /\ repaired # "yes"
       /\ ~HasOp(ops, "write")
  /\ \A o \in verified \ FileObjs :
       (Missing0(o) /\ repair_remotes # NULL) =>
         /\ found_corruption
         /\ store[o] = store0[o]
         /\ cur = o => repaired = "no"
         /\ pc = "done" => ~ret

\* The dirmeta is missing and sources are configured: the run went on to the
\* end and failed on the flag.
C7_Witness ==
  /\ pc = "done"
  /\ ~aborted
  /\ ~ret
  /\ found_corruption
  /\ repair_remotes # NULL
  /\ "mS" \in verified
  /\ Missing0("mS")
  /\ store["mS"] = Gone("mS")

(***************************************************************************)
(* C8 speaks of the passes of repair_object's loop.                        *)
(***************************************************************************)
\* The pass whose log this is ended at line 153.
PassSucceeded(log) ==
  log # << >> /\ LastOp(log).op = "write" /\ LastOp(log).ok
PassFailed(log) == log # << >> /\ ~PassSucceeded(log)

C8_State ==
  /\ ri <= Len(repair_remotes)
  /\ pc = "repair" => ri < Len(repair_remotes)
  /\ ri >= 1 =>
       /\ cur \in FileObjs
       /\ att # << >>
       /\ \A i \in 1..Len(att) : att[i].src = repair_remotes[ri]
  /\ (pc = "repair" /\ ri >= 1) => PassFailed(att) /\ repaired = "n/a"
  /\ (pc # "repair" /\ ri >= 1) => repaired \in {"yes", "no"}
  /\ repaired = "yes" => ri >= 1 /\ PassSucceeded(att) /\ pc # "repair"
  /\ (repaired = "no" /\ cur \in FileObjs) =>
       /\ ri >= 1
       /\ PassFailed(att)
       /\ pc # "repair"
       /\ \/ ri = Len(repair_remotes)
          \/ /\ cancellable = "cancelled"
             /\ LastOp(att) = Op("send", repair_remotes[ri], FALSE)

C8_Step ==
  ri' # ri =>
    IF ri' = 0
    THEN pc = "verify"
    ELSE /\ ri' = ri + 1
         /\ pc = "repair"
         /\ cur' = cur
         /\ ri >= 1 => PassFailed(att)

(***************************************************************************)
(* C8, as amended: the sources are tried in their configured order, pass k *)
(* contacts source k and is made only after every earlier pass has failed, *)
(* no source is contacted after one has succeeded, and the repair reports  *)
(* failure only when every source has failed or the run was cancelled      *)
(* while a request was being sent (the remaining sources are then not      *)
(* tried).                                                                 *)
(***************************************************************************)
C8_SourcesInOrder == []C8_State /\ [][C8_Step]_vars

\* The last of several sources repaired the file after the others had failed.
C8_Witness ==
  /\ pc = "verify"
  /\ cur \in FileObjs
  /\ Len(repair_remotes) >= 2
  /\ ri = Len(repair_remotes)
  /\ repaired = "yes"

\* C8 as it was claimed: failure is reported only once every source has
\* failed.
C8_Original ==
  /\ (pc = "repair" /\ ri >= 1) => PassFailed(att)
  /\ repaired = "yes" => pc # "repair"
  /\ (repaired = "no" /\ cur \in FileObjs) =>
       ri = Len(repair_remotes) /\ PassFailed(att)

(***************************************************************************)
(* C9, as amended: a payload that does not hash to the requested checksum  *)
(* is never installed: the write fails, the pass counts as failed and the  *)
(* next source, if any, is tried.  Content under the requested checksum    *)
(* that hashes to another checksum is never content a source delivered: it *)
(* is the object the run found, left in the store because the deletion     *)
(* that precedes the repair failed.                                        *)
(***************************************************************************)
Mismatched(o) == store[o].st = "here" /\ ChecksumOf(store[o]) # Digest(o)

C9_BadPayloadRejected ==
  (served # << >> /\ ChecksumOf(served[1]) # Digest(cur)) =>
    /\ Op("write", repair_remotes[ri], FALSE) \in SeqToSet(att)
    /\ store[cur] # served[1]
    /\ repaired # "yes"
    /\ \/ pc = "repair"
       \/ ri = Len(repair_remotes) /\ repaired = "no"

C9_MismatchedPayloadNeverInstalled ==
  /\ C9_BadPayloadRejected
  /\ \A o \in Objects : Mismatched(o) => store[o] = store0[o]
  /\ (cur \in FileObjs /\ ri >= 1 /\ Mismatched(cur)) =>
       Op("delete", "", FALSE) \in SeqToSet(ops)

\* The first of two sources served bytes of another checksum: nothing was
\* installed and the second source is about to be tried.
C9_Witness ==
  /\ pc = "repair"
  /\ ri = 1
  /\ Len(repair_remotes) = 2
  /\ served # << >>
  /\ ChecksumOf(served[1]) # Digest(cur)
  /\ store[cur] = Gone(cur)

\* C9 as it was claimed: after a repair attempt the store holds nothing under
\* the requested checksum that hashes to another checksum.
C9_Original ==
  /\ C9_BadPayloadRejected
  /\ (cur \in FileObjs /\ ri >= 1) => ~Mismatched(cur)

(***************************************************************************)
(* C10: an object that loads and fails its structural validator aborts the *)
(* run with the validation error, whatever --delete and the repair sources *)
(* are: no checksum is computed, nothing is deleted and no source is       *)
(* contacted.                                                              *)
(***************************************************************************)
C10_InvalidAlwaysFatal ==
  \A o \in verified :
    Invalid0(o) =>
      /\ pc = "done"
      /\ cur = o
      /\ aborted
      /\ ~ret
      /\ error = Err("While validating", o)
      /\ ops = << Op("load", "", TRUE), Op("validate", "", FALSE) >>
      /\ store[o] = store0[o]
      /\ ri = 0
      /\ att = << >>

\* A file of unsupported mode aborted a run started with --delete and repair
\* sources.
C10_Witness ==
  /\ pc = "done"
  /\ opt_delete
  /\ repair_remotes # NULL
  /\ cur \in FileObjs \cap verified
  /\ Invalid0(cur)
  /\ aborted

(***************************************************************************)
(* C11: the reachable set holds an object once however many roots reach    *)
(* it, the loop over it calls load_and_fsck_one_object at most once for an *)
(* object, and a pass that is not aborted has called it exactly once for   *)
(* every member of the reachable set.                                      *)
(***************************************************************************)
VerifyingOver ==
  pc \in {"post", "tombstone", "report"} \/ (pc = "done" /\ ~aborted)

C11_VerifiedOnce ==
  /\ calls = Cardinality(verified)
  /\ \A i, j \in 1..Len(todo) : todo[i] = todo[j] => i = j
  /\ SeqToSet(todo) \cap verified = {}
  /\ verified \subseteq reachable_objects
  /\ pc \in {"verify", "repair"} =>
       verified \cup SeqToSet(todo) = reachable_objects
  /\ VerifyingOver =>
       /\ verified = reachable_objects
       /\ calls = Cardinality(reachable_objects)

\* Both commits are roots, f1 and mS are reached from both, and the run
\* verified each of the seven objects once.
C11_Witness ==
  /\ pc = "done"
  /\ ~aborted
  /\ commits = {"cA", "cB"}
  /\ {"f1", "mS"} \subseteq Reach("cA") \cap Reach("cB")
  /\ verified = Objects
  /\ calls = Cardinality(Objects)

(***************************************************************************)
(* C12: whatever order the roots are expanded in, the reachable set built  *)
(* from a set of roots over an unchanged store is the union of what the    *)
(* roots reach, and expanding a root again adds nothing to it.             *)
(***************************************************************************)
RootsReach(C) == UNION { Reach(c) : c \in C }

C12_ReachableOrderIndependent ==
  /\ pc = "traverse" => reachable_objects = RootsReach(commits \ roots_todo)
  /\ (pc \in {"verify", "repair"} \/ VerifyingOver) =>
       reachable_objects = RootsReach(commits)
  /\ (pc = "verify" /\ verified = {}) =>
       \A c \in commits :
         TraverseCommitUnion(store, c, reachable_objects, FALSE) =
           [ok |-> TRUE, set |-> reachable_objects]

\* Both roots were expanded, in one order or the other, and the set is the
\* whole repository.
C12_Witness ==
  /\ pc = "verify"
  /\ verified = {}
  /\ commits = {"cA", "cB"}
  /\ reachable_objects = Objects

(***************************************************************************)
(* C13: an object that is in the store, valid and hashes to its name is    *)
(* loaded, validated and checksummed and nothing else: no deletion, no     *)
(* repair, no error.  When every object the roots reach is such, the       *)
(* corruption flag is never set, verification raises no fatal error, the   *)
(* store is changed by nothing but the tombstones --add-tombstones asks    *)
(* for, and a run that nothing else aborts succeeds, whatever --delete and *)
(* the repair sources are.                                                 *)
(***************************************************************************)
AllReachableIntact ==
  \A c \in CommitObjs \ PartialCommits : \A o \in Reach(c) : Intact0(o)

\* The run was aborted by the verification of an object.
VerifyAbort ==
  pc = "done" /\ aborted /\ verified # {} /\ n_enable = 0 /\ applied = << >>

C13_NoFalseFlag ==
  /\ \A o \in verified :
       (Intact0(o) /\ cur = o) =>
         /\ ops = << Op("load", "", TRUE), Op("validate", "", TRUE),
                     Op("checksum", "", TRUE) >>
         /\ ri = 0
         /\ repaired = "n/a"
         /\ ~VerifyAbort
  /\ \A o \in verified : (Intact0(o) /\ store[o] # store0[o]) => o \in Staged
  /\ AllReachableIntact =>
       /\ ~found_corruption
       /\ ~VerifyAbort
       /\ ri = 0
       /\ \A o \in Objects : store[o] # store0[o] => o \in Staged
       /\ ~opt_add_tombstones => store = store0
       /\ (pc = "done" /\ ~aborted) => ret

\* --delete and repair sources are given; the only defect of the store is in
\* f2, which only the Partial commit cB reaches: the run succeeded and left
\* the store alone.
C13_Witness ==
  /\ pc = "done"
  /\ ret
  /\ opt_delete
  /\ repair_remotes # NULL
  /\ commit_partial["cB"]
  /\ Mismatch0("f2")
  /\ verified = Reach("cA")
  /\ store = store0

(***************************************************************************)
(* C14: a --repair-from-remote list that holds "-" and another entry, or   *)
(* names a remote with no url, fails the run before the store is listed:   *)
(* nothing is enumerated, loaded, verified or changed.  "-" alone gives    *)
(* the store's remotes, in the store's order; a list of resolvable names   *)
(* gives itself.                                                           *)
(***************************************************************************)
DashMixed ==
  Dash \in SeqToSet(opt_repair_remotes) /\ Len(opt_repair_remotes) > 1
Unresolvable ==
  /\ Dash \notin SeqToSet(opt_repair_remotes)
  /\ \E i \in 1..Len(opt_repair_remotes) : ~HasUrl(opt_repair_remotes[i])

C14_DashExclusive ==
  /\ ((DashMixed \/ Unresolvable) /\ pc # "prepare") =>
       /\ pc = "done"
       /\ aborted
       /\ ~ret
       /\ error.set
       /\ repair_remotes = NULL
       /\ objects = {}
       /\ commits = {}
       /\ loaded = {}
       /\ verified = {}
       /\ applied = << >>
       /\ store = store0
  /\ (opt_repair_remotes = << Dash >> /\ pc # "prepare") =>
       repair_remotes = StoreRemotes
  /\ (~DashMixed /\ ~Unresolvable /\ pc # "prepare"
        /\ Dash \notin SeqToSet(opt_repair_remotes)) =>
       repair_remotes = opt_repair_remotes

\* "-" was given together with r1: the run failed before the listing.
C14_Witness ==
  /\ pc = "done"
  /\ aborted
  /\ opt_repair_remotes = << Dash, "r1" >>
  /\ error = Err("repair remotes", "")
  /\ loaded = {}
  /\ store = store0

(***************************************************************************)
(* C15, as amended: for an object whose checksum does not match, under     *)
(* --delete or repair sources, the deletion is issued before the first     *)
(* pass of repair_object's loop, and whether it works or fails the run is  *)
(* not aborted and the repair is attempted.  For a missing object no       *)
(* deletion is issued: the repair is attempted at once.                    *)
(***************************************************************************)
RepairAttempted ==
  (repair_remotes # NULL /\ cur \in FileObjs) => (pc = "repair" \/ ri >= 1)

C15_DeleteBeforeRepair ==
  /\ (cur \in verified /\ Mismatch0(cur) /\ Remediation) =>
       /\ Len(ops) = Len(<< "load", "validate", "checksum", "delete" >>)
       /\ LastOp(ops).op = "delete"
       /\ \A i \in 1..(Len(ops) - 1) : ops[i].op # "delete" /\ ops[i].ok
       /\ RepairAttempted
       /\ ~VerifyAbort
  /\ (cur \in verified /\ Missing0(cur) /\ Remediation) =>
       /\ ops = << Op("load", "", FALSE) >>
       /\ RepairAttempted
       /\ ~VerifyAbort

\* The deletion of a mismatched file failed, and the sources were tried all
\* the same.
C15_Witness ==
  /\ pc = "verify"
  /\ cur \in FileObjs \cap verified
  /\ Mismatch0(cur)
  /\ repair_remotes # NULL
  /\ LastOp(ops) = Op("delete", "", FALSE)
  /\ ri >= 1
  /\ repaired \in {"yes", "no"}

\* C15 as it was claimed: a missing object, too, has a deletion issued before
\* its repair.
C15_Original ==
  (cur \in verified /\ (Missing0(cur) \/ Mismatch0(cur)) /\ Remediation) =>
    /\ HasOp(ops, "delete")
    /\ RepairAttempted
    /\ ~VerifyAbort

(***************************************************************************)
(* C16: once the run is cancelled, repair_object's loop makes no pass for  *)
(* a further source: between two passes, a cancelled run leaves the loop.  *)
(***************************************************************************)
C16_Original ==
  [][ (pc = "repair" /\ ri >= 1 /\ cancellable = "cancelled") => ri' = ri ]_vars

(***************************************************************************)
(* C17: between two objects of the verification loop, a cancelled run goes *)
(* no further: no other object is loaded, found corrupt, deleted or        *)
(* repaired.                                                               *)
(***************************************************************************)
C17_Original ==
  [][ (pc = "verify" /\ cancellable = "cancelled") =>
        /\ store' = store
        /\ found_corruption' = found_corruption
        /\ verified' # verified => ~ops'[1].ok ]_vars

Expandable(c) == TraverseCommitUnion(store0, c, {}, FALSE).ok

C20_Original ==
  VerifyAbort => error.set /\ error.csum = cur

(***************************************************************************)
(* C21: once the pass is through lines 502-521, a census that counted      *)
(* Partial commits has had their number printed, whatever the options.     *)
(***************************************************************************)
C21_Original ==
  (pc \in {"tombstone", "report"} /\ n_partial > 0) =>
    printed_partial = << n_partial >>

(***************************************************************************)
(* C22: without --delete, --repair-from-remote and --add-tombstones the    *)
(* run issues no deletion, no write and no enabling of tombstones, however *)
(* it ends: the store stays what it was.                                   *)
(***************************************************************************)
C22_NoOptionsNoChange ==
  (~opt_delete /\ opt_repair_remotes = << >> /\ ~opt_add_tombstones) =>
    /\ store = store0
    /\ markers = {}
    /\ ~tombstone_commits
    /\ n_enable = 0
    /\ applied = << >>
    /\ tombstones = << >>
    /\ ~HasOp(ops, "delete")
    /\ ~HasOp(ops, "write")
    /\ ri = 0
    /\ att = << >>
    /\ pc # "repair"

\* No option is given and the dirmeta is missing: the run went through the
\* reachable set, failed on the flag and left the store alone.
C22_Witness ==
  /\ pc = "done"
  /\ ~aborted
  /\ ~ret
  /\ found_corruption
  /\ ~opt_delete
  /\ opt_repair_remotes = << >>
  /\ ~opt_add_tombstones
  /\ Missing0("mS")
  /\ verified = reachable_objects
  /\ store = store0

(***************************************************************************)
(* C23: the staged requests are applied whether or not verification set    *)
(* the corruption flag: a run that reaches lines 523-530 under             *)
(* --add-tombstones has issued every staged deletion, each with success,   *)
(* and only then fails on the flag.  When fsck_reachable_objects_from_     *)
(* commits fails (line 498) no deletion is issued and the tombstone        *)
(* feature is not enabled.                                                 *)
(***************************************************************************)
AllApplied ==
  /\ Len(applied) = Len(tombstones)
  /\ \A i \in 1..Len(applied) : applied[i].c = tombstones[i] /\ applied[i].ok

\* The run left through line 500: the walk or the verification of an object
\* failed.
VerificationFailed ==
  /\ pc = "done"
  /\ aborted
  /\ error.msg \in {"traverse", "corrupted object", "While validating",
                    "Loading file object", NoError.msg}

C23_TombstonesDespiteFlag ==
  /\ (opt_add_tombstones /\ (pc = "report" \/ (pc = "done" /\ ~aborted))) =>
       /\ AllApplied
       /\ tombstones # << >> => tombstone_commits /\ n_enable = 1
  /\ (opt_add_tombstones /\ found_corruption /\ pc = "done" /\ ~aborted) =>
       /\ ~ret
       /\ error = Err("Repository corruption encountered", "")
  /\ VerificationFailed =>
       /\ applied = << >>
       /\ n_enable = 0
       /\ ~tombstone_commits
       /\ markers = {}

\* Verification set the flag; the staged commit was replaced by its tombstone
\* all the same, and then the run failed.
C23_Witness ==
  /\ pc = "done"
  /\ ~aborted
  /\ ~ret
  /\ found_corruption
  /\ opt_add_tombstones
  /\ tombstones # << >>
  /\ AllApplied
  /\ \A c \in Staged : c \in markers /\ store[c] = Gone(c)

(***************************************************************************)
(* C24: verification never removes a commit that is staged: until the      *)
(* apply phase deletes it a staged commit is in the store, and every       *)
(* deletion the apply phase issues finds its commit there.                 *)
(***************************************************************************)
C24_Original ==
  /\ \A i \in 1..Len(applied) : applied[i].present
  /\ pc \in {"verify", "repair", "post", "tombstone"} =>
       \A c \in Staged :
         (\A i \in 1..Len(applied) : applied[i].c # c) =>
           store[c].st # "absent"
====
